---- MODULE Spec2Model ----
(***************************************************************************)
(* A model of fontqualifiers.py: the FontQualifiers object (its five       *)
(* fields), its constructor/parse, apply_fields, the font_string property  *)
(* and the static find_field.                                              *)
(*                                                                         *)
(* Strings are sequences of code points (Python str restricted to ASCII).  *)
(* Python ints are unbounded, so an int is kept as a sign and a canonical  *)
(* decimal digit string; Python floats are IEEE-754 doubles, kept as a     *)
(* sign, a 53-bit mantissa (most significant bit first) and the number of  *)
(* fractional bits, with round-half-even on every operation.               *)
(***************************************************************************)
EXTENDS Integers, Sequences, FiniteSets, TLC

VARIABLES
    pc,             \* "new" before a call, "obj" once an object exists, "failed", "found"
    fontid,         \* self.fontid
    fontlocal,      \* self.fontlocal
    encoding,       \* self.encoding
    encodinglocal,  \* self.encodinglocal
    matrix,         \* self.matrix
    call,           \* the last call made and its arguments
    err,            \* how the last call ended: "ok" or the exception's class
    out             \* what the last call returned (font_string, find_field)

vars == <<pc, fontid, fontlocal, encoding, encodinglocal, matrix, call, err, out>>

----------------------------------------------------------------------------
(* Characters *)

Sep      == 92      \* '\\'
ChF      == 70      \* 'F'
Chf      == 102     \* 'f'
ChE      == 69      \* 'E'
Che      == 101     \* 'e'
ChM      == 77      \* 'M'
Space    == 32      \* ' '
Newline  == 10      \* '\n'
IdLow    == 33      \* \x21
IdHigh   == 126     \* \x7e
Minus    == 45      \* '-'
Plus     == 43      \* '+'
Under    == 95      \* '_'
Digit0   == 48      \* '0'
Digit9   == 57      \* '9'

\* The characters the examples are written in.
Ord ==
    [c \in {"\\", "F", "f", "E", "e", "M", "X", " ", "-", "+", "_", "x", "\n", "\t",
            "0", "1", "2", "3", "4", "5", "6", "7", "8", "9",
            "H", "o", "m", "S", "l", "L", "a", "t", "b", "!", "~", "."} |->
        CASE c = "\\" -> Sep   [] c = "F" -> ChF   [] c = "f" -> Chf
          [] c = "E" -> ChE    [] c = "e" -> Che   [] c = "M" -> ChM
          [] c = "X" -> 88     [] c = " " -> Space [] c = "-" -> Minus
          [] c = "+" -> Plus   [] c = "_" -> Under [] c = "x" -> 120
          [] c = "\n" -> Newline [] c = "\t" -> 9
          [] c = "0" -> 48 [] c = "1" -> 49 [] c = "2" -> 50 [] c = "3" -> 51
          [] c = "4" -> 52 [] c = "5" -> 53 [] c = "6" -> 54 [] c = "7" -> 55
          [] c = "8" -> 56 [] c = "9" -> 57
          [] c = "H" -> 72 [] c = "o" -> 111 [] c = "m" -> 109 [] c = "S" -> 83
          [] c = "l" -> 108 [] c = "L" -> 76 [] c = "a" -> 97 [] c = "t" -> 116
          [] c = "b" -> 98 [] c = "!" -> 33 [] c = "~" -> 126 [] c = "." -> 46]

\* A string literal, written one character per element.
Str(t) == [i \in DOMAIN t |-> Ord[t[i]]]

----------------------------------------------------------------------------
(* str methods *)

\* s.split(c): the pieces between occurrences of c, empty pieces kept
Split(s, c) ==
    LET at     == SelectSeq([i \in DOMAIN s |-> i], LAMBDA i : s[i] = c)
        cut(k) == IF k = 0 THEN 0 ELSE IF k > Len(at) THEN Len(s) + 1 ELSE at[k]
    IN  [k \in 1..(Len(at) + 1) |-> SubSeq(s, cut(k - 1) + 1, cut(k) - 1)]

RECURSIVE LStrip(_, _)
\* s.lstrip(c)
LStrip(s, c) == IF s # <<>> /\ Head(s) = c THEN LStrip(Tail(s), c) ELSE s

\* c in s
Contains(s, c) == \E i \in DOMAIN s : s[i] = c

\* the index of the first c in s (s contains c)
FirstIndex(s, c) == CHOOSE i \in DOMAIN s : s[i] = c /\ \A j \in 1..(i - 1) : s[j] # c

\* s.split(c, 1) of a string that contains c
SplitOnce(s, c) ==
    LET i == FirstIndex(s, c)
    IN  <<SubSeq(s, 1, i - 1), SubSeq(s, i + 1, Len(s))>>

RECURSIVE Join(_)
\* ''.join(parts)
Join(parts) == IF parts = <<>> THEN <<>> ELSE Head(parts) \o Join(Tail(parts))

----------------------------------------------------------------------------
(* acceptable_identifiers_re = re.compile(r'^[\x21-\x7e]+$') *)

\* the class written [\x21-\x7d]: the last character left out
IdCharShort(c) == IdLow <= c /\ c < IdHigh

IdChar(c) == IdLow <= c /\ c <= IdHigh

AllIdChars(s) == s # <<>> /\ \A i \in DOMAIN s : IdChar(s[i])

\* acceptable_identifiers_re.search(part): '$' matches at the end of the string
\* and also just before a newline that ends it.
AcceptableIdentifier(s) ==
    \/ AllIdChars(s)
    \/ /\ s # <<>>
       /\ s[Len(s)] = Newline
       /\ AllIdChars(SubSeq(s, 1, Len(s) - 1))

----------------------------------------------------------------------------
(* int(str) and '{}'.format(int) *)

IsDigit(c) == Digit0 <= c /\ c <= Digit9

\* the characters str.strip() removes (ASCII)
IsPySpace(c) == c \in {9, 10, 11, 12, 13, 28, 29, 30, 31, 32}

RECURSIVE RStripSpace(_)
RStripSpace(s) ==
    IF s # <<>> /\ IsPySpace(s[Len(s)]) THEN RStripSpace(SubSeq(s, 1, Len(s) - 1)) ELSE s

RECURSIVE LStripSpace(_)
LStripSpace(s) == IF s # <<>> /\ IsPySpace(Head(s)) THEN LStripSpace(Tail(s)) ELSE s

\* digits with single underscores between them
DigitsWithUnderscores(s) ==
    /\ s # <<>>
    /\ IsDigit(s[1])
    /\ IsDigit(s[Len(s)])
    /\ \A i \in DOMAIN s : IsDigit(s[i]) \/ (s[i] = Under /\ IsDigit(s[i + 1]))

RECURSIVE DropLeadingZeros(_)
DropLeadingZeros(d) ==
    IF Len(d) > 1 /\ Head(d) = Digit0 THEN DropLeadingZeros(Tail(d)) ELSE d

\* int(s): [ok |-> FALSE] is ValueError; otherwise the value as a sign and its
\* decimal digits without leading zeros.
PyInt(s) ==
    LET t    == LStripSpace(RStripSpace(s))
        sgn  == t # <<>> /\ Head(t) \in {Minus, Plus}
        body == IF sgn THEN Tail(t) ELSE t
        dig  == DropLeadingZeros(SelectSeq(body, IsDigit))
    IN  IF DigitsWithUnderscores(body)
        THEN [ok |-> TRUE, neg |-> sgn /\ Head(t) = Minus /\ dig # <<Digit0>>, digits |-> dig]
        ELSE [ok |-> FALSE, neg |-> FALSE, digits |-> <<>>]

\* '{}'.format(n) of an int held as sign and digits
IntText(n) == IF n.neg THEN <<Minus>> \o n.digits ELSE n.digits

----------------------------------------------------------------------------
(* Numbers: the matrix bounds, and IEEE-754 double arithmetic *)

MatrixLen == 6        \* len(matrix_parts) != 6
Scale16   == 65536    \* value / 65536.0, matrix[i] * 65536
Scale1000 == 1000     \* value / 1000.0,  matrix[i] * 1000
MantBits  == 53       \* significand bits of a Python float

\* the decimal digits of 1<<31
Two31Digits == Str(<<"2", "1", "4", "7", "4", "8", "3", "6", "4", "8">>)

RECURSIVE DigitsLess(_, _)
\* a < b for two digit strings of the same length
DigitsLess(a, b) ==
    IF a = <<>> THEN FALSE
    ELSE IF Head(a) # Head(b) THEN Head(a) < Head(b)
    ELSE DigitsLess(Tail(a), Tail(b))

\* abs(n) >= 1<<31 for an int held as sign and digits
MagnitudeAtLeastTwo31(n) ==
    \/ Len(n.digits) > Len(Two31Digits)
    \/ Len(n.digits) = Len(Two31Digits) /\ ~DigitsLess(n.digits, Two31Digits)

RECURSIVE DigitsValue(_, _)
DigitsValue(d, acc) ==
    IF d = <<>> THEN acc ELSE DigitsValue(Tail(d), 10 * acc + (Head(d) - Digit0))

\* the magnitude of an int below 1<<31, as a number
Magnitude(n) == DigitsValue(n.digits, 0)

RECURSIVE NatDigits(_)
NatDigits(v) == IF v < 10 THEN <<Digit0 + v>> ELSE Append(NatDigits(v \div 10), Digit0 + (v % 10))

RECURSIVE NatBits(_)
\* the binary digits of v, most significant first, none for 0
NatBits(v) == IF v = 0 THEN <<>> ELSE Append(NatBits(v \div 2), v % 2)

RECURSIVE BitsValue(_, _)
BitsValue(b, acc) == IF b = <<>> THEN acc ELSE BitsValue(Tail(b), 2 * acc + Head(b))

RECURSIVE Increment(_)
\* b + 1 on binary digits, most significant first; may grow by one digit
Increment(b) ==
    IF b = <<>> THEN <<1>>
    ELSE IF b[Len(b)] = 0 THEN Append(SubSeq(b, 1, Len(b) - 1), 1)
    ELSE Append(Increment(SubSeq(b, 1, Len(b) - 1)), 0)

\* A float is [sign, bits, frac]: sign * bits * 2^-frac, where bits are the
\* significant binary digits from the first 1 to the last 1 (at most MantBits).
Canon(sign, bits, frac) ==
    LET last == CHOOSE i \in DOMAIN bits : bits[i] = 1 /\ \A j \in (i + 1)..Len(bits) : bits[j] = 0
    IN  [sign |-> sign, bits |-> SubSeq(bits, 1, last), frac |-> frac - (Len(bits) - last)]

\* Round-half-even of MantBits digits whose discarded part is above, at or below
\* half a unit ("gt", "eq", "lt"); frac is the number of fractional digits kept.
RoundMant(sign, bits, frac, half) ==
    LET up == half = "gt" \/ (half = "eq" /\ bits[Len(bits)] = 1)
    IN  Canon(sign, IF up THEN Increment(bits) ELSE bits, frac)

FloatZero == [sign |-> 1, bits |-> <<>>, frac |-> 0]

\* Long arithmetic on binary digits is done 13 digits at a time, which keeps every
\* intermediate product below 2^31 for a multiplier or divisor up to 65536.
Pow2(n) == CASE n = 0 -> 1 [] n = 1 -> 2 [] n = 2 -> 4 [] n = 3 -> 8 [] n = 4 -> 16
             [] n = 5 -> 32 [] n = 6 -> 64 [] n = 7 -> 128 [] n = 8 -> 256
             [] n = 9 -> 512 [] n = 10 -> 1024 [] n = 11 -> 2048 [] n = 12 -> 4096
             [] n = 13 -> 8192

\* the n low binary digits of v, most significant first
LowBits(v, n) == [i \in 1..n |-> (v \div Pow2(n - i)) % 2]

\* Round a quotient or product, given by its significant digits and a flag saying
\* whether anything non-zero lies beyond them, to at most MantBits digits
\* (round-half-even); frac is the number of fractional digits of `all`.
RoundTo53(sign, all, frac, beyond) ==
    LET drop == Len(all) - MantBits
        rest == SubSeq(all, MantBits + 1, Len(all))
        half == IF rest[1] = 0 THEN "lt"
                ELSE IF beyond \/ (\E i \in 2..drop : rest[i] = 1) THEN "gt" ELSE "eq"
    IN  IF drop <= 0 THEN Canon(sign, all, frac)
        ELSE RoundMant(sign, SubSeq(all, 1, MantBits), frac - drop, half)

RECURSIVE DivBits(_, _, _, _)
\* long division: extend the quotient digits of (.. + r/d) until more than
\* MantBits of them are significant
DivBits(bits, r, d, frac) ==
    IF Len(bits) > MantBits THEN [bits |-> bits, r |-> r, frac |-> frac]
    ELSE LET q    == (r * 8192) \div d
             more == IF bits = <<>> THEN NatBits(q) ELSE LowBits(q, 13)
         IN  DivBits(bits \o more, (r * 8192) % d, d, frac + 13)

\* float(v) / d for an int v with abs(v) < 1<<31 (sign is 1 or -1, mag = abs(v))
FloatDiv(sign, mag, d) ==
    IF mag = 0 THEN FloatZero
    ELSE LET q == DivBits(NatBits(mag \div d), mag % d, d, 0)
         IN  RoundTo53(sign, q.bits, q.frac, q.r # 0)

RECURSIVE MulBits(_, _, _)
\* bits * d, 13 columns at a time from the least significant end, carry c
MulBits(bits, d, c) ==
    IF bits = <<>> THEN NatBits(c)
    ELSE LET n == IF Len(bits) < 13 THEN Len(bits) ELSE 13
             t == c + d * BitsValue(SubSeq(bits, Len(bits) - n + 1, Len(bits)), 0)
         IN  MulBits(SubSeq(bits, 1, Len(bits) - n), d, t \div Pow2(n)) \o LowBits(t % Pow2(n), n)

\* x * d for a float x and an int d
FloatMul(x, d) ==
    IF x.bits = <<>> THEN x
    ELSE RoundTo53(x.sign, MulBits(x.bits, d, 0), x.frac, FALSE)

\* int(x): truncation toward zero, as sign and digits
FloatToInt(x) ==
    LET keep == Len(x.bits) - x.frac
        mag  == IF keep <= 0 THEN 0
                ELSE IF x.frac >= 0 THEN BitsValue(SubSeq(x.bits, 1, keep), 0)
                ELSE BitsValue(x.bits \o [i \in 1..(0 - x.frac) |-> 0], 0)
    IN  [ok |-> TRUE, neg |-> x.sign = -1 /\ mag # 0, digits |-> NatDigits(mag)]

----------------------------------------------------------------------------
(* The FontQualifiers object *)

\* A field is None, the FontQualifierEmpty placeholder, or a value.
None       == [tag |-> "None", val |-> <<>>]
Empty      == [tag |-> "Empty", val |-> <<>>]
Value(v)   == [tag |-> "Value", val |-> v]

\* __init__ before it calls parse
Fresh ==
    [fontid |-> None, fontlocal |-> None, encoding |-> None,
     encodinglocal |-> None, matrix |-> None]

Raise(e, obj) == [err |-> e, obj |-> obj]
Ok(obj)       == [err |-> "ok", obj |-> obj]

\* the F and E branches without the allow_empty test
ParseIdentifierNoEmpty(obj, name, part, allow_empty) ==
    IF ~AcceptableIdentifier(part)
    THEN Raise("BadString", [obj EXCEPT ![name] = Value(part)])
    ELSE Ok([obj EXCEPT ![name] = Value(part)])

\* the F and E branches of parse: the field is assigned before it is validated
ParseIdentifier(obj, name, part, allow_empty) ==
    IF part = <<>> /\ allow_empty THEN Ok([obj EXCEPT ![name] = Empty])
    ELSE IF ~AcceptableIdentifier(part)
         THEN Raise("BadString", [obj EXCEPT ![name] = Value(part)])
         ELSE Ok([obj EXCEPT ![name] = Value(part)])

\* the f and e branches of parse
ParseLocal(obj, name, part, allow_empty) ==
    IF part = <<>> /\ allow_empty THEN Ok([obj EXCEPT ![name] = Empty])
    ELSE IF ~Contains(part, Space) THEN Raise("BadString", obj)
    ELSE LET two       == SplitOnce(part, Space)
             territory == PyInt(two[1])
         IN  IF ~territory.ok THEN Raise("BadString", obj)
             ELSE Ok([obj EXCEPT ![name] = Value(<<territory, two[2]>>)])

\* matrix_parts with the trailing empty component left in
MatrixPartsNoPop(part) == Split(LStrip(part, Space), Space)

\* matrix_parts, after the trailing empty component is popped
MatrixParts(part) ==
    LET matrix_parts == Split(LStrip(part, Space), Space)
    IN  IF matrix_parts[Len(matrix_parts)] = <<>>
        THEN SubSeq(matrix_parts, 1, Len(matrix_parts) - 1)
        ELSE matrix_parts

\* value >= (1<<31) or value <= -(1<<31)
TooLarge(value) == MagnitudeAtLeastTwo31(value)

\* value / 65536.0 if index < 4 else value / 1000.0 (index counted from 0)
MatrixElement(index, value) ==
    FloatDiv(IF value.neg THEN -1 ELSE 1, Magnitude(value),
             IF index < 4 THEN Scale16 ELSE Scale1000)

\* the M branch of parse
ParseMatrix(obj, part, need_trailing_space_on_matrix, allow_empty) ==
    IF part = <<>> /\ allow_empty THEN Ok([obj EXCEPT !.matrix = Empty])
    ELSE LET stripped     == LStrip(part, Space)
             all          == Split(stripped, Space)
             trailing     == all[Len(all)] = <<>>
             matrix_parts == MatrixParts(part)
             values       == [i \in DOMAIN matrix_parts |-> PyInt(matrix_parts[i])]
         IN  IF ~trailing /\ need_trailing_space_on_matrix THEN Raise("BadMatrix", obj)
             ELSE IF Len(matrix_parts) # MatrixLen THEN Raise("BadMatrix", obj)
             ELSE IF \E i \in DOMAIN values : ~values[i].ok THEN Raise("BadMatrix", obj)
             ELSE IF \E i \in DOMAIN values : TooLarge(values[i]) THEN Raise("BadMatrix", obj)
             ELSE Ok([obj EXCEPT !.matrix =
                          Value([i \in DOMAIN values |-> MatrixElement(i - 1, values[i])])])

\* one turn of the loop of parse over parts[1:]
ParsePart(obj, part, need_trailing_space_on_matrix, allow_empty) ==
    IF part = <<>> THEN Raise("IndexError", obj)        \* qualifier = part[0]
    ELSE LET qualifier == Head(part)
             text      == Tail(part)
         IN  CASE qualifier = ChF -> ParseIdentifier(obj, "fontid", text, allow_empty)
               [] qualifier = Chf -> ParseLocal(obj, "fontlocal", text, allow_empty)
               [] qualifier = ChE -> ParseIdentifier(obj, "encoding", text, allow_empty)
               [] qualifier = Che -> ParseLocal(obj, "encodinglocal", text, allow_empty)
               [] qualifier = ChM ->
                      ParseMatrix(obj, text, need_trailing_space_on_matrix, allow_empty)
               [] OTHER -> Raise("BadString", obj)

RECURSIVE ParseParts(_, _, _, _)
\* the loop of parse: the first exception ends it
ParseParts(obj, parts, need_trailing_space_on_matrix, allow_empty) ==
    IF parts = <<>> THEN Ok(obj)
    ELSE LET r == ParsePart(obj, Head(parts), need_trailing_space_on_matrix, allow_empty)
         IN  IF r.err # "ok" THEN r
             ELSE ParseParts(r.obj, Tail(parts), need_trailing_space_on_matrix, allow_empty)

\* parse(font_string, need_trailing_space_on_matrix, allow_empty) on a fresh object
Parse(font_string, need_trailing_space_on_matrix, allow_empty) ==
    IF font_string = <<>> /\ allow_empty THEN Ok(Fresh)
    ELSE LET qualified == IF font_string = <<>> \/ Head(font_string) # Sep
                          THEN <<Sep, ChF>> \o font_string
                          ELSE font_string
         IN  ParseParts(Fresh, Tail(Split(qualified, Sep)),
                        need_trailing_space_on_matrix, allow_empty)

\* reduce without its first branch: the placeholder is taken for a value
ReduceNoClear(current_value, new_value) ==
    IF new_value # None THEN new_value ELSE current_value

\* reduce, the helper of apply_fields
Reduce(current_value, new_value) ==
    IF new_value = Empty THEN None
    ELSE IF new_value # None THEN new_value
    ELSE current_value

\* apply_fields parsing the overlay straight into the fields: what was parsed
\* before the exception is merged
ApplyFieldsPartial(self, apply) ==
    [err |-> apply.err,
     obj |-> [fontid        |-> Reduce(self.fontid, apply.obj.fontid),
              fontlocal     |-> Reduce(self.fontlocal, apply.obj.fontlocal),
              encoding      |-> Reduce(self.encoding, apply.obj.encoding),
              encodinglocal |-> Reduce(self.encodinglocal, apply.obj.encodinglocal),
              matrix        |-> Reduce(self.matrix, apply.obj.matrix)]]

\* apply_fields taking the parsed overlay's fields as they are, without reduce
ApplyFieldsOverwrite(self, apply) ==
    IF apply.err # "ok" THEN Raise(apply.err, self) ELSE Ok(apply.obj)

\* apply_fields, given `apply`, the outcome of parsing the overlay with
\* allow_empty=True into an object of its own
ApplyFieldsTo(self, apply) ==
    IF apply.err # "ok" THEN Raise(apply.err, self)
        ELSE Ok([fontid        |-> Reduce(self.fontid, apply.obj.fontid),
                 fontlocal     |-> Reduce(self.fontlocal, apply.obj.fontlocal),
                 encoding      |-> Reduce(self.encoding, apply.obj.encoding),
                 encodinglocal |-> Reduce(self.encodinglocal, apply.obj.encodinglocal),
                 matrix        |-> Reduce(self.matrix, apply.obj.matrix)])

IsSet(field) == field # None /\ field # Empty

\* '{} {}'.format(local[0], local[1])
LocalText(local) == IntText(local[1]) \o <<Space>> \o local[2]

\* int(self.matrix[index] * 65536) or int(self.matrix[index] * 1000)
MatrixInt(index, x) == FloatToInt(FloatMul(x, IF index < 4 THEN Scale16 ELSE Scale1000))

\* '{} {} {} {} {} {} '.format(...)
MatrixText(m) == Join([i \in DOMAIN m |-> IntText(MatrixInt(i - 1, m[i])) \o <<Space>>])

\* the list `fields` of font_string
FontStringFields(self) ==
    (IF IsSet(self.fontid) THEN << <<ChF, self.fontid.val>> >> ELSE <<>>)
    \o (IF IsSet(self.fontlocal) THEN << <<Chf, LocalText(self.fontlocal.val)>> >> ELSE <<>>)
    \o (IF IsSet(self.encoding) THEN << <<ChE, self.encoding.val>> >> ELSE <<>>)
    \o (IF IsSet(self.encodinglocal)
        THEN << <<Che, LocalText(self.encodinglocal.val)>> >> ELSE <<>>)
    \o (IF IsSet(self.matrix) THEN << <<ChM, MatrixText(self.matrix.val)>> >> ELSE <<>>)

\* font_string without the bare-name shortcut
FontStringNoShortcut(self) ==
    LET fields == FontStringFields(self)
    IN  Join([i \in DOMAIN fields |-> <<Sep, fields[i][1]>> \o fields[i][2]])

\* the font_string property
FontString(self) ==
    LET fields == FontStringFields(self)
    IN  IF Len(fields) = 1 /\ fields[1][1] = ChF THEN fields[1][2]
        ELSE Join([i \in DOMAIN fields |-> <<Sep, fields[i][1]>> \o fields[i][2]])

RECURSIVE FindIn(_, _, _)
\* the loop of find_field over parts[1:]
FindIn(parts, wanted, offset) ==
    IF parts = <<>> THEN [err |-> "ok", found |-> FALSE, offset |-> 0]
    ELSE IF Head(parts) = <<>> THEN [err |-> "IndexError", found |-> FALSE, offset |-> 0]
    ELSE IF Head(parts)[1] = wanted THEN [err |-> "ok", found |-> TRUE, offset |-> offset + 2]
    ELSE FindIn(Tail(parts), wanted, offset + 2 + Len(Head(parts)) - 1)

\* find_field(font_string, wanted); found = FALSE is the result None
FindField(font_string, wanted) ==
    IF font_string = <<>> THEN [err |-> "ok", found |-> FALSE, offset |-> 0]
    ELSE IF Head(font_string) # Sep /\ wanted = ChF
         THEN [err |-> "ok", found |-> TRUE, offset |-> 0]
    ELSE LET parts == Split(font_string, Sep)
         IN  FindIn(Tail(parts), wanted, Len(parts[1]))

----------------------------------------------------------------------------
(* Font strings given to the constructor and to apply_fields *)

\* an identifier before the first separator: absent, or a bare font name
Heads == {<<>>, Str(<<"S", "l">>)}

MatrixGood == Str(<<"6", "5", "5", "3", "6", " ", "0", " ", "0", " ",
                    "-", "3", "2", "7", "6", "8", " ", "1", "0", "0", "0", " ", "0">>)

\* backslash-introduced fields: each kind with a value and with empty text, a
\* matrix with too few components, an unknown qualifier, and a separator with
\* nothing after it
FieldTexts ==
    {Str(<<"\\", "F", "H", "o", "m">>), Str(<<"\\", "F">>),
     Str(<<"\\", "f", "0", "1", " ", "a", " ", "b">>), Str(<<"\\", "f">>),
     Str(<<"\\", "E", "L", "a", "t">>), Str(<<"\\", "E">>),
     Str(<<"\\", "e", "2", " ", "b">>), Str(<<"\\", "e">>),
     Str(<<"\\", "M">>) \o MatrixGood, Str(<<"\\", "M">>),
     Str(<<"\\", "M", "0", " ", "0">>),
     Str(<<"\\", "X", "a">>),
     Str(<<"\\">>)}

\* the fields that also come second
SecondTexts ==
    {Str(<<"\\", "F", "H", "o", "m">>), Str(<<"\\", "F">>),
     Str(<<"\\", "E", "L", "a", "t">>),
     Str(<<"\\", "M">>) \o MatrixGood,
     Str(<<"\\", "X", "a">>),
     Str(<<"\\">>)}

\* at most two fields, the first of which may be a bare font name
FontStrings ==
    {a \o b : a \in Heads \cup FieldTexts, b \in SecondTexts \cup {<<>>}}

\* Parse over the font strings, as a table (@@ makes TLC compute it once)
Parsed ==
    [x \in FontStrings \X BOOLEAN \X BOOLEAN |-> Parse(x[1], x[2], x[3])] @@ <<>>

\* Parse, looked up in the table where the table has it
ParseOf(font_string, need_trailing_space_on_matrix, allow_empty) ==
    LET x == <<font_string, need_trailing_space_on_matrix, allow_empty>>
    IN  IF font_string \in FontStrings THEN Parsed[x]
        ELSE Parse(font_string, need_trailing_space_on_matrix, allow_empty)

----------------------------------------------------------------------------
(* The object's life: construction, then apply_fields and font_string *)

self == [fontid |-> fontid, fontlocal |-> fontlocal, encoding |-> encoding,
         encodinglocal |-> encodinglocal, matrix |-> matrix]

Becomes(obj) ==
    /\ fontid' = obj.fontid
    /\ fontlocal' = obj.fontlocal
    /\ encoding' = obj.encoding
    /\ encodinglocal' = obj.encodinglocal
    /\ matrix' = obj.matrix

Call(op, s, nts, ae, wanted) ==
    [op |-> op, s |-> s, nts |-> nts, ae |-> ae, wanted |-> wanted]

NoResult == [found |-> FALSE, offset |-> 0, text |-> <<>>]

Init ==
    /\ pc = "new"
    /\ fontid = None
    /\ fontlocal = None
    /\ encoding = None
    /\ encodinglocal = None
    /\ matrix = None
    /\ call = Call("none", <<>>, FALSE, FALSE, 0)
    /\ err = "ok"
    /\ out = NoResult

\* FontQualifiers(font_string, need_trailing_space_on_matrix, allow_empty): an
\* exception leaves the caller without an object
Construct(font_string, need_trailing_space_on_matrix, allow_empty) ==
    /\ pc = "new"
    /\ LET r == ParseOf(font_string, need_trailing_space_on_matrix, allow_empty)
       IN  /\ err' = r.err
           /\ pc' = IF r.err = "ok" THEN "obj" ELSE "failed"
           /\ Becomes(IF r.err = "ok" THEN r.obj ELSE Fresh)
    /\ call' = Call("construct", font_string, need_trailing_space_on_matrix, allow_empty, 0)
    /\ out' = NoResult

\* self.apply_fields(font_string, need_trailing_space_on_matrix); the caller may
\* catch the exception and go on using the object
ApplyFields(font_string, need_trailing_space_on_matrix) ==
    /\ pc = "obj"
    /\ LET r == ApplyFieldsTo(self, ParseOf(font_string, need_trailing_space_on_matrix, TRUE))
       IN  /\ err' = r.err
           /\ Becomes(r.obj)
    /\ call' = Call("apply_fields", font_string, need_trailing_space_on_matrix, TRUE, 0)
    /\ out' = NoResult
    /\ UNCHANGED pc

\* self.font_string
GetFontString ==
    /\ pc = "obj"
    /\ out' = [NoResult EXCEPT !.text = FontString(self)]
    /\ call' = Call("font_string", <<>>, FALSE, FALSE, 0)
    /\ err' = "ok"
    /\ UNCHANGED <<pc, fontid, fontlocal, encoding, encodinglocal, matrix>>

Next ==
    \/ \E s \in FontStrings, nts \in BOOLEAN, ae \in BOOLEAN : Construct(s, nts, ae)
    \/ \E s \in FontStrings, nts \in BOOLEAN : ApplyFields(s, nts)
    \/ GetFontString

Spec == Init /\ [][Next]_vars

----------------------------------------------------------------------------
(* Short strings over a few characters: find_field, and parsing them *)

MaxLen == 4

StrAlphabet == {Sep, ChF, ChE, IdHigh, Space}

ShortStrings == UNION {[1..n -> StrAlphabet] : n \in 0..MaxLen}

Wanted == {ChF, ChE}

\* FontQualifiers.find_field(font_string, wanted), a static method
FindFieldCall(font_string, wanted) ==
    /\ pc = "new"
    /\ LET r == FindField(font_string, wanted)
       IN  /\ err' = r.err
           /\ out' = [NoResult EXCEPT !.found = r.found, !.offset = r.offset]
    /\ pc' = "found"
    /\ call' = Call("find_field", font_string, FALSE, FALSE, wanted)
    /\ UNCHANGED <<fontid, fontlocal, encoding, encodinglocal, matrix>>

NextStr ==
    \/ \E s \in ShortStrings, nts \in BOOLEAN, ae \in BOOLEAN : Construct(s, nts, ae)
    \/ \E s \in ShortStrings, k \in Wanted : FindFieldCall(s, k)

SpecStr == Init /\ [][NextStr]_vars

----------------------------------------------------------------------------
(* Matrix fields: up to MaxComps components, all "0" but one *)

MaxComps == 7

Zero == Str(<<"0">>)

Components ==
    {Zero, <<>>,
     Str(<<"-", "1">>), Str(<<"+", "1">>), Str(<<"1", "_", "0">>), Str(<<"x">>),
     Str(<<"1", "0", "0", "1">>), Str(<<"1", "2", "8", "0", "0", "4">>),
     Str(<<"2", "1", "4", "7", "4", "8", "3", "6", "4", "7">>),
     Str(<<"-", "2", "1", "4", "7", "4", "8", "3", "6", "4", "7">>),
     Str(<<"2", "1", "4", "7", "4", "8", "3", "6", "4", "8">>),
     Str(<<"-", "2", "1", "4", "7", "4", "8", "3", "6", "4", "8">>)}

RECURSIVE JoinWith(_, _)
\* sep.join(parts)
JoinWith(parts, sep) ==
    IF Len(parts) <= 1 THEN Join(parts)
    ELSE Head(parts) \o sep \o JoinWith(Tail(parts), sep)

\* the texts of a matrix field: components joined by single spaces, with or
\* without spaces before and after
MatrixTexts ==
    {lead \o JoinWith([i \in 1..n |-> IF i = p THEN c ELSE Zero], <<Space>>) \o trail :
        n \in 0..MaxComps, p \in 1..MaxComps, c \in Components,
        lead \in {<<>>, <<Space>>}, trail \in {<<>>, <<Space>>, <<Space, Space>>}}

\* a matrix field alone, and after a font identifier and an encoding
MatrixStrings ==
    {pre \o <<Sep, ChM>> \o m :
        pre \in {<<>>, Str(<<"\\", "F", "H", "o", "m", "\\", "E", "L", "a", "t">>)},
        m \in MatrixTexts}

NextMatrix ==
    \/ \E s \in MatrixStrings, nts \in BOOLEAN, ae \in BOOLEAN : Construct(s, nts, ae)
    \/ GetFontString

SpecMatrix == Init /\ [][NextMatrix]_vars

----------------------------------------------------------------------------
(* What a font string says about each field, read off the string itself *)

Kinds == <<ChF, Chf, ChE, Che, ChM>>

FieldName(k) ==
    CASE k = ChF -> "fontid" [] k = Chf -> "fontlocal" [] k = ChE -> "encoding"
      [] k = Che -> "encodinglocal" [] k = ChM -> "matrix"

\* the backslash-introduced segments of a string, a bare name counted as an F field
Segments(s) ==
    IF s = <<>> THEN <<>>
    ELSE IF Head(s) # Sep THEN Tail(Split(<<Sep, ChF>> \o s, Sep))
    ELSE Tail(Split(s, Sep))

\* the value a constructor gives to field k when handed that field alone
ValueAlone(k, text) == Parse(<<Sep, k>> \o text, FALSE, FALSE).obj[FieldName(k)]

\* What an overlay says about field k: None when no segment has kind k, Empty when
\* the last such segment has empty text, else the value of the last such segment.
Mention(s, k) ==
    LET segs == Segments(s)
        of   == {i \in DOMAIN segs : segs[i] # <<>> /\ segs[i][1] = k}
        last == CHOOSE i \in of : \A j \in of : j <= i
    IN  IF of = {} THEN None
        ELSE IF Tail(segs[last]) = <<>> THEN Empty
        ELSE ValueAlone(k, Tail(segs[last]))

\* Mention over the font strings, as a table
Mentions ==
    [s \in FontStrings |-> [n \in {FieldName(Kinds[i]) : i \in DOMAIN Kinds} |->
        Mention(s, CHOOSE k \in {Kinds[i] : i \in DOMAIN Kinds} : FieldName(k) = n)]] @@ <<>>

\* the three-way rule
ThreeWay(before, mention) ==
    CASE mention = Empty -> None
      [] mention = None -> before
      [] OTHER -> mention

\* C1: a successful apply_fields sets each of the five fields by the three-way
\* rule: unset where the overlay names the field with empty text, the overlay's
\* value where it gives one, the previous value where it does not mention the
\* field; the empty string changes nothing and a bare name changes fontid alone.
C1_ThreeWayRule ==
    [][(call'.op = "apply_fields" /\ err' = "ok") =>
        LET m == Mentions[call'.s]
        IN  /\ fontid' = ThreeWay(fontid, m.fontid)
            /\ fontlocal' = ThreeWay(fontlocal, m.fontlocal)
            /\ encoding' = ThreeWay(encoding, m.encoding)
            /\ encodinglocal' = ThreeWay(encodinglocal, m.encodinglocal)
            /\ matrix' = ThreeWay(matrix, m.matrix)
            /\ (call'.s = <<>> => self' = self)
            /\ (call'.s # <<>> /\ ~Contains(call'.s, Sep) =>
                    /\ fontid' = Value(call'.s)
                    /\ <<fontlocal, encoding, encodinglocal, matrix>>'
                         = <<fontlocal, encoding, encodinglocal, matrix>>)]_vars

\* an overlay that clears fontid, sets encoding and leaves the matrix alone has acted
C1_Witness ==
    /\ call.op = "apply_fields"
    /\ err = "ok"
    /\ call.s = Str(<<"\\", "F", "\\", "E", "L", "a", "t">>)
    /\ fontid = None
    /\ encoding = Value(Str(<<"L", "a", "t">>))
    /\ matrix.tag = "Value"

\* C2: an apply_fields whose overlay fails to parse (BadString or BadMatrix)
\* leaves all five fields as they were, whatever came before.
C2_FailedApplyLeavesFields ==
    [][(call'.op = "apply_fields" /\ err' \in {"BadString", "BadMatrix"}) =>
        self' = self]_vars

\* an overlay whose first field is valid and whose second field fails has been
\* applied to an object whose encoding differs from the overlay's
C2_Witness ==
    /\ call.op = "apply_fields"
    /\ err = "BadString"
    /\ call.s = Str(<<"\\", "E", "L", "a", "t", "\\", "X", "a">>)
    /\ encoding = None
    /\ fontid.tag = "Value"

AllNone == self = Fresh

\* the original C3: every non-empty string of characters in 0x21-0x7E that does
\* not start with the separator parses to fontid = S with every other field unset
C3_Original ==
    (/\ call.op = "construct"
     /\ ~call.ae
     /\ call.s # <<>>
     /\ \A i \in DOMAIN call.s : call.s[i] >= IdLow /\ call.s[i] <= IdHigh
     /\ Head(call.s) # Sep)
    => (/\ err = "ok"
        /\ fontid = Value(call.s)
        /\ <<fontlocal, encoding, encodinglocal, matrix>> = <<None, None, None, None>>)

\* C3, amended: every non-empty string of characters in 0x21-0x7E that holds no
\* separator at all parses (without allow_empty) to fontid = S with every other
\* field unset.
C3_BareName ==
    (/\ call.op = "construct"
     /\ ~call.ae
     /\ call.s # <<>>
     /\ \A i \in DOMAIN call.s : call.s[i] >= IdLow /\ call.s[i] <= IdHigh
     /\ \A i \in DOMAIN call.s : call.s[i] # Sep)
    => (/\ err = "ok"
        /\ fontid = Value(call.s)
        /\ <<fontlocal, encoding, encodinglocal, matrix>> = <<None, None, None, None>>)

\* a bare name that holds the last character of the range has been parsed
C3_Witness ==
    /\ call.op = "construct"
    /\ ~call.ae
    /\ call.s = <<ChF, IdHigh, ChE>>
    /\ err = "ok"
    /\ fontid = Value(<<ChF, IdHigh, ChE>>)

\* C5: find_field returns the offset of the first character of the value of the
\* first field of kind k: 0 for a bare string and k = 'F'; otherwise an offset r
\* with the separator at r-2, k at r-1 and no earlier segment of kind k; and None
\* exactly when the string is empty or no segment has kind k.
C5_FindFieldOffset ==
    call.op = "find_field" =>
        LET s     == call.s
            k     == call.wanted
            bare  == s # <<>> /\ Head(s) # Sep /\ k = ChF
            \* 1-based places where a separator is followed by k
            at    == {i \in 1..(Len(s) - 1) : s[i] = Sep /\ s[i + 1] = k}
            first == CHOOSE i \in at : \A j \in at : i <= j
        IN  /\ err = "ok"
            /\ bare => out.found /\ out.offset = 0
            /\ (~bare /\ at = {}) => ~out.found
            \* the value starts just after the kind character: 0-based offset first + 1
            /\ (~bare /\ at # {}) => out.found /\ out.offset = first + 1

\* C6: find_field never fails: it returns an offset or None for every string and
\* every kind character.
C6_FindFieldNeverFails ==
    call.op = "find_field" => err = "ok"

\* whether a segment, taken alone, is a field the parser accepts
SegmentAccepted(seg, nts, ae) == ParsePart(Fresh, seg, nts, ae).err = "ok"

KindSet == {Kinds[i] : i \in DOMAIN Kinds}

\* C7: every parse (and so every apply_fields) succeeds or fails with BadString
\* or BadMatrix and nothing else; a field whose kind character is none of
\* F, f, E, e, M, or that has no kind character at all, fails with BadString.
C7_TwoErrorKinds ==
    call.op \in {"construct", "apply_fields"} =>
        LET segs == Segments(call.s)
        IN  /\ err \in {"ok", "BadString", "BadMatrix"}
            /\ \A i \in DOMAIN segs :
                  (/\ segs[i] = <<>> \/ segs[i][1] \notin KindSet
                   /\ \A j \in 1..(i - 1) : SegmentAccepted(segs[j], call.nts, call.ae))
                  => err = "BadString"

\* C9: font_string emits exactly the fields that hold a value, in the order
\* F, f, E, e, M, each as separator, marker and text; when fontid is the only
\* such field the result is the bare identifier, and in no other case is the F
\* marker left out.
C9_FontStringFields ==
    call.op = "font_string" =>
        LET held   == SelectSeq(Kinds, LAMBDA k : self[FieldName(k)].tag = "Value")
            text(k) == CASE k = ChF -> fontid.val
                         [] k = Chf -> LocalText(fontlocal.val)
                         [] k = ChE -> encoding.val
                         [] k = Che -> LocalText(encodinglocal.val)
                         [] k = ChM -> MatrixText(matrix.val)
            pieces == Split(out.text, Sep)
        IN  IF held = <<ChF>> THEN out.text = fontid.val
            ELSE /\ pieces[1] = <<>>
                 /\ Len(pieces) = Len(held) + 1
                 /\ \A i \in DOMAIN held : pieces[i + 1] = <<held[i]>> \o text(held[i])

\* font_string has been read from an object whose fontlocal is the placeholder
\* and whose fontid and encoding hold values
C9_Witness ==
    /\ call.op = "font_string"
    /\ fontlocal = Empty
    /\ fontid.tag = "Value"
    /\ encoding.tag = "Value"
    /\ matrix = None
    /\ out.text = <<Sep, ChF>> \o fontid.val \o <<Sep, ChE>> \o encoding.val

\* C10: without allow_empty the empty string fails with BadString and a field
\* with empty text fails, F, f, E and e with BadString and M with BadMatrix; with
\* allow_empty the empty string gives five unset fields and a field with empty
\* text is recorded as the placeholder instead of failing.  (A field counts once
\* the parser reaches it: the fields before it are accepted.)
C10_EmptyText ==
    call.op = "construct" =>
        LET segs     == Segments(call.s)
            reached(i) == \A j \in 1..(i - 1) : SegmentAccepted(segs[j], call.nts, call.ae)
            empty(i)   == Len(segs[i]) = 1 /\ segs[i][1] \in KindSet
            lastOf(i)  == \A j \in (i + 1)..Len(segs) : segs[j] = <<>> \/ segs[j][1] # segs[i][1]
        IN  /\ (call.s = <<>> /\ ~call.ae) => err = "BadString"
            /\ (call.s = <<>> /\ call.ae) => err = "ok" /\ AllNone
            /\ \A i \in DOMAIN segs : (empty(i) /\ reached(i)) =>
                  IF ~call.ae
                  THEN err = (IF segs[i][1] = ChM THEN "BadMatrix" ELSE "BadString")
                  ELSE /\ (\A j \in (i + 1)..Len(segs) :
                              SegmentAccepted(segs[j], call.nts, call.ae)) => err = "ok"
                       /\ (err = "ok" /\ lastOf(i)) => self[FieldName(segs[i][1])] = Empty

\* with allow_empty, a string that sets encoding and names F with empty text has
\* been parsed: fontid is the placeholder
C10_Witness ==
    /\ call.op = "construct"
    /\ call.ae
    /\ call.s = Str(<<"\\", "E", "L", "a", "t", "\\", "F">>)
    /\ err = "ok"
    /\ fontid = Empty
    /\ encoding.tag = "Value"

\* the text of the last field of a string (in the matrix strings, the M field)
LastFieldText(s) == LET segs == Segments(s) IN Tail(segs[Len(segs)])

\* the largest magnitude a matrix component may have, (1<<31) - 1
Max31 == Str(<<"2", "1", "4", "7", "4", "8", "3", "6", "4", "7">>)

\* a base-10 integer as int() reads one: an optional sign, then digits, which may
\* have single underscores between them; strictly between -2^31 and 2^31
IntegerInRange(c) ==
    LET body   == IF c # <<>> /\ c[1] \in {Minus, Plus} THEN Tail(c) ELSE c
        digits == SelectSeq(body, LAMBDA x : x # Under)
        nz     == {i \in DOMAIN digits : digits[i] # Digit0}
        from   == IF nz = {} THEN Len(digits) ELSE CHOOSE i \in nz : \A j \in nz : i <= j
        sig    == SubSeq(digits, from, Len(digits))
    IN  /\ body # <<>>
        /\ \A i \in DOMAIN body :
              \/ body[i] \in Digit0..Digit9
              \/ /\ body[i] = Under
                 /\ i > 1 /\ i < Len(body)
                 /\ body[i - 1] \in Digit0..Digit9 /\ body[i + 1] \in Digit0..Digit9
        /\ \/ Len(sig) < Len(Max31)
           \/ /\ Len(sig) = Len(Max31)
              /\ \A i \in DOMAIN sig :
                    sig[i] > Max31[i] => \E j \in 1..(i - 1) : sig[j] < Max31[j]

\* the matrix texts the claim accepts
MatrixAccepted(text, nts) ==
    LET spaces == {i \in DOMAIN text : text[i] # Space}
        start  == IF spaces = {} THEN Len(text) + 1
                  ELSE CHOOSE i \in spaces : \A j \in spaces : i <= j
        u      == SubSeq(text, start, Len(text))
        ended  == u # <<>> /\ u[Len(u)] = Space
        body   == IF ended THEN SubSeq(u, 1, Len(u) - 1) ELSE u
        comps  == Split(body, Space)
    IN  /\ u # <<>>
        /\ Len(comps) = MatrixLen
        /\ \A i \in DOMAIN comps : IntegerInRange(comps[i])
        /\ nts => ended

MatrixInts(s) ==
    LET parts == MatrixParts(LastFieldText(s))
    IN  [i \in DOMAIN parts |-> PyInt(parts[i])]

FromIdEncodingMatrix ==
    /\ fontid.tag = "Value"
    /\ encoding.tag = "Value"
    /\ matrix.tag = "Value"

\* C4: for an object built from a font id, an encoding and a matrix,
\* serialize(parse(serialize(qs))) = serialize(qs), the serialized matrix field
\* ends with a space, and it carries the six integers that were parsed.
C4_RoundTrip ==
    /\ (call.op = "font_string" /\ FromIdEncodingMatrix) =>
          LET again == Parse(out.text, FALSE, FALSE)
          IN  /\ again.err = "ok"
              /\ FontString(again.obj) = out.text
              /\ out.text[Len(out.text)] = Space
    /\ (call.op = "construct" /\ err = "ok" /\ FromIdEncodingMatrix) =>
          MatrixInts(FontString(self)) = MatrixInts(call.s)

----------------------------------------------------------------------------
(* Identifier texts: names that hold characters outside 0x21-0x7E *)

MaxIdLen == 2

IdAlphabet == {ChE, Space, Newline}

\* the identifier texts
IdNames == UNION {[1..n -> IdAlphabet] : n \in 0..MaxIdLen}

\* a name given bare, as the F field and as the E field
IdStrings == IdNames \cup {<<Sep, k>> \o n : k \in {ChF, ChE}, n \in IdNames}

NextId ==
    \/ \E s \in IdStrings, nts \in BOOLEAN, ae \in BOOLEAN : Construct(s, nts, ae)
    \/ \E s \in IdStrings, nts \in BOOLEAN : ApplyFields(s, nts)

SpecId == Init /\ [][NextId]_vars

\* a non-empty string whose characters all lie in 0x21-0x7E
InIdRange(s) ==
    /\ s # <<>>
    /\ \A i \in DOMAIN s : s[i] >= IdLow /\ s[i] <= IdHigh

\* C11: in every object obtained by a successful parse and then any sequence of
\* apply_fields calls, fontid and encoding, whenever they hold a value, are
\* non-empty strings of characters in 0x21-0x7E; and a parse or overlay whose
\* identifier text holds a character outside that range fails with BadString.
C11_IdentifierInvariant ==
    /\ pc = "obj" =>
          /\ fontid.tag = "Value" => InIdRange(fontid.val)
          /\ encoding.tag = "Value" => InIdRange(encoding.val)
    /\ call.op \in {"construct", "apply_fields"} =>
          LET segs == Segments(call.s)
          IN  \A i \in DOMAIN segs :
                (/\ segs[i] # <<>>
                 /\ segs[i][1] \in {ChF, ChE}
                 /\ \E j \in 2..Len(segs[i]) :
                       segs[i][j] < IdLow \/ segs[i][j] > IdHigh
                 /\ \A j \in 1..(i - 1) : SegmentAccepted(segs[j], call.nts, call.ae))
                => err = "BadString"

\* no field of the object is the FontQualifierEmpty placeholder
NoPlaceholder ==
    /\ fontid # Empty
    /\ fontlocal # Empty
    /\ encoding # Empty
    /\ encodinglocal # Empty
    /\ matrix # Empty

\* C12: the placeholder never persists in a base object: an object constructed
\* without allow_empty has none, and no apply_fields call, succeeding or failing,
\* puts one into an object that had none; each field stays None or a value.
C12_PlaceholderNeverPersists ==
    [][/\ (call'.op = "construct" /\ ~call'.ae /\ err' = "ok") => NoPlaceholder'
       /\ (pc = "obj" /\ NoPlaceholder) => NoPlaceholder']_vars

\* an overlay naming the matrix with empty text has been applied: the matrix is
\* unset, the font identifier is kept, and no field is the placeholder
C12_Witness ==
    /\ call.op = "apply_fields"
    /\ call.s = <<Sep, ChM>>
    /\ err = "ok"
    /\ matrix = None
    /\ fontid.tag = "Value"
    /\ NoPlaceholder

====
